---- MODULE Spec2Model ----
(***************************************************************************)
(* Vendor Payment Optimizer: schedule_payments (src/api/scheduler.py) and  *)
(* the /optimize endpoint that calls it (src/api/main.py).                 *)
(*                                                                         *)
(* Units.  Amounts are integers in cents.  A discount rate is kept in      *)
(* hundredths (the parser divides the percentage by 100.0), so the product *)
(* amount * rate is in 1/10000 of a currency unit and round(.., 2) brings  *)
(* it back to cents.  Dates are day numbers; a DueDate cell is a timestamp *)
(* in hours, which .dt.date truncates to its day.  A missing value (None,  *)
(* NaN, pd.NA) is the empty tuple, a present value v is <<v>>.             *)
(***************************************************************************)
EXTENDS Integers, Sequences, FiniteSets, TLC

VARIABLES
    clock,          \* the system date that dt.date.today() reads
    tieOrder,       \* how this build's unstable sort leaves equal keys
    df,             \* argument: the invoice batch
    current_cash,   \* argument
    max_spend,      \* argument (None or <<value>>)
    frequency,      \* argument: the frequency label, a sequence of characters
    pc,             \* position inside schedule_payments
    next_run,       \* None or <<day>>
    bucketA,        \* df[mask1]
    bucketB,        \* df[mask2]
    remaining,      \* df[~(mask1 | mask2)], ranked once pc passes "rank"
    candidate_df,   \* pd.concat(pay_list)
    spend_cap,      \* None or <<cents>>
    scheduled,      \* the rows appended so far
    total_spent,
    cursor,         \* the row of candidate_df the loop is at
    calls,          \* requests the endpoint has answered
    prev            \* the previous request and its response, None before it

vars == <<clock, tieOrder, df, current_cash, max_spend, frequency, pc, next_run,
          bucketA, bucketB, remaining, candidate_df, spend_cap, scheduled,
          total_spent, cursor, calls, prev>>

----------------------------------------------------------------------------
(* Bounds of the model *)

MaxInvoices == 3

MaxClock == 1

MaxCalls == 2

----------------------------------------------------------------------------
(* Optional values *)

None == <<>>

Some(x) == <<x>>

IsNone(o) == o = <<>>

Get(o) == o[1]

----------------------------------------------------------------------------
(* parse_discount_terms.  A term is None (a cell that is not a string) or   *)
(* a sequence of tokens: a numeral, "/", " Net ", or other text.            *)

Num(n) == [k |-> "num", v |-> n]

Slash == [k |-> "slash", v |-> 0]

Net == [k |-> "net", v |-> 0]

Text == [k |-> "text", v |-> 0]

Positions(s, kind) == {i \in 1..Len(s) : s[i].k = kind}

IsNumeral(part) == Len(part) = 1 /\ part[1].k = "num"

RateScale == 100

Degraded == [rate |-> 0, disc_days |-> None, net_days |-> None]

ParseDiscountTerms(term) ==
    IF IsNone(term) \/ Positions(Get(term), "net") = {}
    THEN Degraded
    ELSE LET t == Get(term)
             nets == Positions(t, "net")
         IN  IF Cardinality(nets) # 1
             THEN Degraded
             ELSE LET n == CHOOSE i \in nets : TRUE
                      pct_part == SubSeq(t, 1, n - 1)
                      net_part == SubSeq(t, n + 1, Len(t))
                      slashes == Positions(pct_part, "slash")
                  IN  IF Cardinality(slashes) # 1
                      THEN Degraded
                      ELSE LET s == CHOOSE i \in slashes : TRUE
                               discount_pct == SubSeq(pct_part, 1, s - 1)
                               days_str == SubSeq(pct_part, s + 1, Len(pct_part))
                           IN  IF IsNumeral(discount_pct) /\ IsNumeral(days_str)
                                  /\ IsNumeral(net_part)
                               THEN [rate |-> discount_pct[1].v,
                                     disc_days |-> Some(days_str[1].v),
                                     net_days |-> Some(net_part[1].v)]
                               ELSE Degraded

----------------------------------------------------------------------------
(* Next pay-run date *)

Lower(label) ==
    [i \in 1..Len(label) |->
        CASE label[i] = "W" -> "w"
          [] label[i] = "B" -> "b"
          [] label[i] = "M" -> "m"
          [] label[i] = "Q" -> "q"
          [] OTHER -> label[i]]

StartsWith(s, prefix) ==
    Len(s) >= Len(prefix) /\ SubSeq(s, 1, Len(prefix)) = prefix

DaysPerWeek == 7

MonthlyDays == 30

NextRun(today, label) ==
    IF StartsWith(Lower(label), <<"w", "e", "e", "k", "l", "y">>)
    THEN today + 1 * DaysPerWeek
    ELSE IF StartsWith(Lower(label), <<"b", "i">>)
         THEN today + 2 * DaysPerWeek
         ELSE today + MonthlyDays

----------------------------------------------------------------------------
(* Step 1: the working copy of the frame.  The row label (its position in   *)
(* the upload) stands for the Invoice# cell; VendorName is carried through  *)
(* untouched by the code and is left out.                                   *)

HoursPerDay == 24

ToDate(timestamp) == timestamp \div HoursPerDay

Frame(batch) ==
    [i \in 1..Len(batch) |->
        [idx |-> i,
         Amount |-> batch[i].Amount,
         OrigDueDate |-> ToDate(batch[i].DueDate),
         Priority |-> batch[i].Priority,
         DiscountTerms |-> batch[i].DiscountTerms]]

----------------------------------------------------------------------------
(* Step 3: the three masks *)

Mask1(row, nextRun) == row.Priority = 1 /\ row.OrigDueDate <= nextRun

Mask2NoExclusion(row, nextRun) == row.OrigDueDate <= nextRun

Mask2(row, nextRun) == row.OrigDueDate <= nextRun /\ ~Mask1(row, nextRun)

MaskRest(row, nextRun) == ~(Mask1(row, nextRun) \/ Mask2(row, nextRun))

RECURSIVE Filter(_, _, _)
Filter(rows, nextRun, which) ==
    IF rows = <<>>
    THEN <<>>
    ELSE LET r == Head(rows)
             keep == CASE which = "A" -> Mask1(r, nextRun)
                       [] which = "B" -> Mask2(r, nextRun)
                       [] OTHER -> MaskRest(r, nextRun)
         IN  (IF keep THEN <<r>> ELSE <<>>) \o Filter(Tail(rows), nextRun, which)

----------------------------------------------------------------------------
(* Step 3C: discount economics and the ranking of the remaining rows *)

SavingsRate(rate, days_until_discount) ==
    IF days_until_discount = 0 THEN None ELSE Some(<<rate, days_until_discount>>)

WithEconomics(row) ==
    LET p == ParseDiscountTerms(row.DiscountTerms)
        days_until_discount == IF IsNone(p.disc_days) THEN 0 ELSE Get(p.disc_days)
    IN  [idx |-> row.idx,
         Amount |-> row.Amount,
         OrigDueDate |-> row.OrigDueDate,
         Priority |-> row.Priority,
         DiscountTerms |-> row.DiscountTerms,
         rate |-> Some(p.rate),
         savings_rate |-> SavingsRate(p.rate, days_until_discount)]

\* a / b compared with c / d by cross-multiplication (b and d have one sign)
KeyLess(x, y) == x[1] * y[2] < y[1] * x[2]

KeyEqual(x, y) == x[1] * y[2] = y[1] * x[2]

RECURSIVE InsertDescending(_, _)
InsertDescending(sorted, row) ==
    IF sorted = <<>>
    THEN <<row>>
    ELSE IF KeyLess(Get(Head(sorted).savings_rate), Get(row.savings_rate))
         THEN <<row>> \o sorted
         ELSE <<Head(sorted)>> \o InsertDescending(Tail(sorted), row)

RECURSIVE SortDescending(_)
SortDescending(rows) ==
    IF rows = <<>>
    THEN <<>>
    ELSE InsertDescending(SortDescending(SubSeq(rows, 1, Len(rows) - 1)),
                          rows[Len(rows)])

Reverse(s) == [i \in 1..Len(s) |-> s[Len(s) + 1 - i]]

HasKey(row) == ~IsNone(row.savings_rate)

NoKey(row) == IsNone(row.savings_rate)

\* sort_values('savings_rate', ascending=False): the rows with a key in
\* descending order, then the rows without one in their input order.  The
\* default kind is "quicksort", which is not stable: rows with equal keys
\* come out in input order only while the sort stays inside its insertion
\* sort for short arrays.  tieOrder is what this build does with them.
SortValues(rows, ties) ==
    LET keyed == SelectSeq(rows, HasKey)
    IN  SortDescending(IF ties = "input" THEN keyed ELSE Reverse(keyed))
            \o SelectSeq(rows, NoKey)

----------------------------------------------------------------------------
(* Step D: pd.concat fills the columns a frame lacks with NaN *)

Pad(row) ==
    [idx |-> row.idx,
     Amount |-> row.Amount,
     OrigDueDate |-> row.OrigDueDate,
     Priority |-> row.Priority,
     DiscountTerms |-> row.DiscountTerms,
     rate |-> None,
     savings_rate |-> None]

PadAll(rows) == [i \in 1..Len(rows) |-> Pad(rows[i])]

ConcatDueFirst(a, b, c) == PadAll(b) \o PadAll(a) \o c

Concat(a, b, c) == PadAll(a) \o PadAll(b) \o c

----------------------------------------------------------------------------
(* Step E: the spend cap and the walk *)

Min(x, y) == IF x < y THEN x ELSE y

Truthy(opt) == ~IsNone(opt) /\ Get(opt) # 0

SpendCapOverrideIfPresent(cash, maxSpend) ==
    IF ~IsNone(maxSpend) THEN Min(cash, Get(maxSpend)) ELSE cash

SpendCap(cash, maxSpend) ==
    IF Truthy(maxSpend) THEN Min(cash, Get(maxSpend)) ELSE cash

OverCapBeforeAdding(total, amt, cap) == total > cap

OverCapOrEqual(total, amt, cap) == total + amt >= cap

OverCap(total, amt, cap) == total + amt > cap

AfterSkipBreak(at, n) == n + 1

AfterSkip(at, n) == at + 1

\* row.get('rate', 0.0) or 0.0: NaN is truthy, so a NaN cell stays NaN
RateOrZero(cell) ==
    IF IsNone(cell) THEN None
    ELSE IF Get(cell) = 0 THEN Some(0) ELSE cell

DiscAmount(amt, rate) == IF IsNone(rate) THEN None ELSE Some(amt * Get(rate))

\* round half to even of n / d, d > 0
RoundHalfEven(n, d) ==
    LET q == n \div d
        r == n % d
    IN  IF 2 * r < d THEN q
        ELSE IF 2 * r > d THEN q + 1
        ELSE IF q % 2 = 0 THEN q ELSE q + 1

Round2(x) == IF IsNone(x) THEN None ELSE Some(RoundHalfEven(Get(x), RateScale))

ScheduledRow(row, nextRun) ==
    [Invoice |-> row.idx,
     OrigDueDate |-> row.OrigDueDate,
     RecPayDate |-> nextRun,
     Amount |-> row.Amount,
     Discount |-> Round2(DiscAmount(row.Amount, RateOrZero(row.rate))),
     Priority |-> row.Priority]

----------------------------------------------------------------------------
(* Inputs *)

NoTerms == None

Terms_2_10_Net_30 == Some(<<Num(2), Slash, Num(10), Net, Num(30)>>)

Terms_1_5_Net_30 == Some(<<Num(1), Slash, Num(5), Net, Num(30)>>)

Terms_3_10_Net_45 == Some(<<Num(3), Slash, Num(10), Net, Num(45)>>)

Terms_2_0_Net_30 == Some(<<Num(2), Slash, Num(0), Net, Num(30)>>)

Terms_Net_30 == Some(<<Text, Net, Num(30)>>)

Terms_Garbage == Some(<<Text>>)

Weekly == <<"W", "e", "e", "k", "l", "y">>

BiWeekly == <<"B", "i", "-", "W", "e", "e", "k", "l", "y">>

Monthly == <<"M", "o", "n", "t", "h", "l", "y">>

Quarterly == <<"q", "u", "a", "r", "t", "e", "r", "l", "y">>

Invoice(amount, dueHours, priority, terms) ==
    [Amount |-> amount, DueDate |-> dueHours, Priority |-> priority,
     DiscountTerms |-> terms]

Batches(kinds) == UNION {[1..n -> kinds] : n \in 0..MaxInvoices}

InitOver(kinds, budgets, labels, days, ties) ==
    /\ clock \in days
    /\ tieOrder \in ties
    /\ df \in Batches(kinds)
    /\ \E b \in budgets : current_cash = b[1] /\ max_spend = b[2]
    /\ frequency \in labels
    /\ pc = "start"
    /\ next_run = None
    /\ bucketA = <<>>
    /\ bucketB = <<>>
    /\ remaining = <<>>
    /\ candidate_df = <<>>
    /\ spend_cap = None
    /\ scheduled = <<>>
    /\ total_spent = 0
    /\ cursor = 0
    /\ calls = 0
    /\ prev = None

----------------------------------------------------------------------------
(* schedule_payments, one action per step *)

\* lines 45-55
ComputeNextRun ==
    /\ pc = "start"
    /\ next_run' = Some(NextRun(clock, frequency))
    /\ pc' = "classify"
    /\ UNCHANGED <<clock, tieOrder, df, current_cash, max_spend, frequency,
                   bucketA, bucketB, remaining, candidate_df, spend_cap,
                   scheduled, total_spent, cursor, calls, prev>>

\* lines 58-69
Classify ==
    /\ pc = "classify"
    /\ bucketA' = Filter(Frame(df), Get(next_run), "A")
    /\ bucketB' = Filter(Frame(df), Get(next_run), "B")
    /\ remaining' = Filter(Frame(df), Get(next_run), "C")
    /\ pc' = "rank"
    /\ UNCHANGED <<clock, tieOrder, df, current_cash, max_spend, frequency,
                   next_run, candidate_df, spend_cap, scheduled, total_spent,
                   cursor, calls, prev>>

\* lines 70-72 on an empty frame: apply() returns an empty Series, and the
\* assignment of it to three columns raises ValueError
RankRaises ==
    /\ pc = "rank"
    /\ remaining = <<>>
    /\ pc' = "raised"
    /\ UNCHANGED <<clock, tieOrder, df, current_cash, max_spend, frequency,
                   next_run, bucketA, bucketB, remaining, candidate_df,
                   spend_cap, scheduled, total_spent, cursor, calls, prev>>

\* lines 70-76
Rank ==
    /\ pc = "rank"
    /\ remaining # <<>>
    /\ remaining' = SortValues([i \in 1..Len(remaining) |->
                                    WithEconomics(remaining[i])], tieOrder)
    /\ pc' = "concat"
    /\ UNCHANGED <<clock, tieOrder, df, current_cash, max_spend, frequency,
                   next_run, bucketA, bucketB, candidate_df, spend_cap,
                   scheduled, total_spent, cursor, calls, prev>>

\* lines 79-84
ConcatAndCap ==
    /\ pc = "concat"
    /\ candidate_df' = Concat(bucketA, bucketB, remaining)
    /\ spend_cap' = Some(SpendCap(current_cash, max_spend))
    /\ scheduled' = <<>>
    /\ total_spent' = 0
    /\ cursor' = 1
    /\ pc' = "walk"
    /\ UNCHANGED <<clock, tieOrder, df, current_cash, max_spend, frequency,
                   next_run, bucketA, bucketB, remaining, calls, prev>>

\* lines 85-88
WalkSkip ==
    /\ pc = "walk"
    /\ cursor <= Len(candidate_df)
    /\ OverCap(total_spent, candidate_df[cursor].Amount, Get(spend_cap))
    /\ cursor' = AfterSkip(cursor, Len(candidate_df))
    /\ UNCHANGED <<clock, tieOrder, df, current_cash, max_spend, frequency, pc,
                   next_run, bucketA, bucketB, remaining, candidate_df,
                   spend_cap, scheduled, total_spent, calls, prev>>

\* lines 85-101
WalkSelect ==
    /\ pc = "walk"
    /\ cursor <= Len(candidate_df)
    /\ ~OverCap(total_spent, candidate_df[cursor].Amount, Get(spend_cap))
    /\ scheduled' = Append(scheduled,
                           ScheduledRow(candidate_df[cursor], Get(next_run)))
    /\ total_spent' = total_spent + candidate_df[cursor].Amount
    /\ cursor' = cursor + 1
    /\ UNCHANGED <<clock, tieOrder, df, current_cash, max_spend, frequency, pc,
                   next_run, bucketA, bucketB, remaining, candidate_df,
                   spend_cap, calls, prev>>

\* lines 103-104
Finish ==
    /\ pc = "walk"
    /\ cursor > Len(candidate_df)
    /\ pc' = "done"
    /\ UNCHANGED <<clock, tieOrder, df, current_cash, max_spend, frequency,
                   next_run, bucketA, bucketB, remaining, candidate_df,
                   spend_cap, scheduled, total_spent, cursor, calls, prev>>

----------------------------------------------------------------------------
(* The endpoint (main.py): the response goes out and the same form is       *)
(* submitted again; the system date moves on between requests.              *)

Request == [df |-> df, current_cash |-> current_cash, max_spend |-> max_spend,
            frequency |-> frequency]

Respond ==
    /\ pc = "done"
    /\ calls + 1 < MaxCalls
    /\ prev' = Some([request |-> Request, response |-> scheduled])
    /\ calls' = calls + 1
    /\ pc' = "start"
    /\ next_run' = None
    /\ bucketA' = <<>>
    /\ bucketB' = <<>>
    /\ remaining' = <<>>
    /\ candidate_df' = <<>>
    /\ spend_cap' = None
    /\ scheduled' = <<>>
    /\ total_spent' = 0
    /\ cursor' = 0
    /\ UNCHANGED <<clock, tieOrder, df, current_cash, max_spend, frequency>>

Tick ==
    /\ pc = "start"
    /\ clock < MaxClock
    /\ clock' = clock + 1
    /\ UNCHANGED <<tieOrder, df, current_cash, max_spend, frequency, pc,
                   next_run, bucketA, bucketB, remaining, candidate_df,
                   spend_cap, scheduled, total_spent, cursor, calls, prev>>

----------------------------------------------------------------------------
(* Specifications *)

Next ==
    \/ ComputeNextRun
    \/ Classify
    \/ RankRaises
    \/ Rank
    \/ ConcatAndCap
    \/ WalkSkip
    \/ WalkSelect
    \/ Finish

NextServe ==
    \/ ComputeNextRun
    \/ Classify
    \/ RankRaises
    \/ Rank
    \/ ConcatAndCap
    \/ WalkSkip
    \/ WalkSelect
    \/ Finish
    \/ Respond
    \/ Tick

DueSoon == 7 * HoursPerDay + 12

DueNextDay == 8 * HoursPerDay

DueLater == 50 * HoursPerDay

\* One call; the amounts and the budget vary.
KindsAlloc ==
    {Invoice(a, DueSoon, 1, NoTerms) : a \in {-2000, 0, 3000, 5000, 8000}}
    \cup {Invoice(a, DueLater, 2, NoTerms) : a \in {-2000, 0, 3000, 5000, 8000}}

BudgetsAlloc ==
    {<<10000, None>>, <<10000, Some(0)>>, <<10000, Some(-5000)>>,
     <<10000, Some(5000)>>, <<10000, Some(15000)>>, <<0, None>>,
     <<0, Some(5000)>>}

Init == InitOver(KindsAlloc, BudgetsAlloc, {Weekly}, {0}, {"input"})

Spec == Init /\ [][Next]_vars

\* One call; the due dates, priorities and discount terms vary.
KindsRank ==
    {Invoice(3000, DueSoon, 1, Terms_2_10_Net_30),
     Invoice(3000, DueSoon, 2, Terms_3_10_Net_45),
     Invoice(8000, DueNextDay, 2, NoTerms),
     Invoice(8000, DueLater, 1, Terms_2_10_Net_30)}
    \cup {Invoice(3000, DueLater, 2, t) :
            t \in {NoTerms, Terms_2_10_Net_30, Terms_1_5_Net_30,
                   Terms_3_10_Net_45, Terms_2_0_Net_30, Terms_Net_30,
                   Terms_Garbage}}

InitRank ==
    InitOver(KindsRank, {<<10000, None>>},
             {Weekly, BiWeekly, Monthly, Quarterly}, {0},
             {"input", "reversed"})

SpecRank == InitRank /\ [][Next]_vars

\* The endpoint answers the same request twice while the date moves on.
KindsServe ==
    {Invoice(3000, DueNextDay, 1, Terms_2_10_Net_30),
     Invoice(8000, DueSoon, 2, NoTerms),
     Invoice(3000, DueLater, 2, Terms_2_10_Net_30),
     Invoice(5000, DueLater, 2, Terms_1_5_Net_30)}

InitServe ==
    InitOver(KindsServe, {<<10000, None>>}, {Weekly, BiWeekly, Quarterly},
             0..MaxClock, {"input", "reversed"})

SpecServe == InitServe /\ [][NextServe]_vars

----------------------------------------------------------------------------
(* Vocabulary of the properties *)

Walking == pc \in {"walk", "done"}

Classified == pc \in {"rank", "concat", "walk", "done", "raised"}

Ranked == pc \in {"concat", "walk", "done"}

RECURSIVE SumAmounts(_)
SumAmounts(rows) ==
    IF rows = <<>> THEN 0 ELSE Head(rows).Amount + SumAmounts(Tail(rows))

Ids(rows) == {rows[i].idx : i \in 1..Len(rows)}

IdSeq(rows) == [i \in 1..Len(rows) |-> rows[i].idx]

SelectedSeq == [i \in 1..Len(scheduled) |-> scheduled[i].Invoice]

SelectedIds == {scheduled[i].Invoice : i \in 1..Len(scheduled)}

AmountsOf(rows) == [i \in 1..Len(rows) |-> rows[i].Amount]

DueDay(i) == ToDate(df[i].DueDate)

\* 1, 2, 3 for Bucket A, B, C, read off the invoice and the next run date
BucketOf(i) ==
    IF df[i].Priority = 1 /\ DueDay(i) <= Get(next_run) THEN 1
    ELSE IF DueDay(i) <= Get(next_run) THEN 2
    ELSE 3

RECURSIVE IsSubsequence(_, _)
IsSubsequence(s, t) ==
    IF s = <<>> THEN TRUE
    ELSE IF t = <<>> THEN FALSE
    ELSE IF Head(s) = Head(t) THEN IsSubsequence(Tail(s), Tail(t))
    ELSE IsSubsequence(s, Tail(t))

\* the selection the skip-and-continue rule makes on a candidate sequence
RECURSIVE GreedyWalk(_, _, _)
GreedyWalk(rows, total, cap) ==
    IF rows = <<>> THEN <<>>
    ELSE IF total + Head(rows).Amount > cap
         THEN GreedyWalk(Tail(rows), total, cap)
         ELSE <<Head(rows).idx>>
                  \o GreedyWalk(Tail(rows), total + Head(rows).Amount, cap)

AllAmountsPositive == \A i \in 1..Len(df) : df[i].Amount > 0

AllAmountsNonNegative == \A i \in 1..Len(df) : df[i].Amount >= 0

----------------------------------------------------------------------------
(* C1.  As stated: after every iteration of the allocation loop, and at the *)
(* end, the selected amounts sum to at most spendCap, for every batch and   *)
(* every run-parameter combination.                                         *)
C1_SumWithinCapAlways ==
    Walking => SumAmounts(scheduled) <= Get(spend_cap)

(* C1, amended.  After every iteration and at the end, the selected amounts *)
(* sum to at most spendCap whenever spendCap is not negative or at least    *)
(* one invoice has been selected (the empty selection sums to 0, which a    *)
(* negative spendCap is below).                                             *)
C1_SumWithinCap ==
    (Walking /\ (Get(spend_cap) >= 0 \/ scheduled # <<>>))
        => SumAmounts(scheduled) <= Get(spend_cap)

C1_Witness ==
    /\ pc = "done"
    /\ Len(scheduled) >= 2
    /\ Len(scheduled) < Len(candidate_df)
    /\ SumAmounts(scheduled) = Get(spend_cap)

----------------------------------------------------------------------------
(* C2.  The three buckets (A: priority 1 and due by the next run; B: due by *)
(* the next run and not in A; C: the rest) are pairwise disjoint, cover the *)
(* batch, and the candidate ordering holds every invoice exactly once.      *)
C2_BucketsPartition ==
    /\ Classified =>
        /\ Ids(bucketA) \cap Ids(bucketB) = {}
        /\ Ids(bucketA) \cap Ids(remaining) = {}
        /\ Ids(bucketB) \cap Ids(remaining) = {}
        /\ Ids(bucketA) \cup Ids(bucketB) \cup Ids(remaining) = 1..Len(df)
        /\ Len(bucketA) + Len(bucketB) + Len(remaining) = Len(df)
        /\ \A i \in 1..Len(df) :
            /\ i \in Ids(bucketA) <=> BucketOf(i) = 1
            /\ i \in Ids(bucketB) <=> BucketOf(i) = 2
            /\ i \in Ids(remaining) <=> BucketOf(i) = 3
    /\ Walking =>
        /\ Len(candidate_df) = Len(df)
        /\ Ids(candidate_df) = 1..Len(df)

C2_Witness ==
    /\ pc = "walk"
    /\ bucketA # <<>>
    /\ bucketB # <<>>
    /\ remaining # <<>>
    /\ Len(candidate_df) = MaxInvoices

----------------------------------------------------------------------------
(* C3.  The walk is skip-and-continue: a candidate is selected exactly when *)
(* the amounts selected before it plus its own do not exceed spendCap; one  *)
(* that does not fit is skipped and the walk goes on; no decision is        *)
(* revisited.  Amounts 80, 50, 30 in that order under a cap of 100 select   *)
(* the 80 alone.                                                            *)
C3_SkipAndContinue ==
    Walking =>
        /\ cursor \in 1..(Len(candidate_df) + 1)
        /\ SelectedSeq =
             GreedyWalk(SubSeq(candidate_df, 1, cursor - 1), 0, Get(spend_cap))
        /\ total_spent = SumAmounts(scheduled)
        /\ (/\ pc = "done"
            /\ AmountsOf(candidate_df) = <<8000, 5000, 3000>>
            /\ Get(spend_cap) = 10000)
               => AmountsOf(scheduled) = <<8000>>

\* a candidate was skipped and a later one selected
C3_Witness ==
    /\ pc = "done"
    /\ \E p, q \in 1..Len(candidate_df) :
        /\ p < q
        /\ candidate_df[p].idx \notin SelectedIds
        /\ candidate_df[q].idx \in SelectedIds
        /\ candidate_df[q].Amount > 0

----------------------------------------------------------------------------
(* C4.  The schedule is a subsequence of the candidate ordering, which is   *)
(* Bucket A, then Bucket B, then ranked Bucket C: selected A invoices come  *)
(* before selected B invoices, which come before selected C invoices,       *)
(* whatever the input order and whatever the discounts.                     *)
C4_OutputFollowsBuckets ==
    Walking =>
        /\ IdSeq(candidate_df) = IdSeq(bucketA) \o IdSeq(bucketB) \o IdSeq(remaining)
        /\ \A p, q \in 1..Len(candidate_df) :
               p < q => BucketOf(candidate_df[p].idx) <= BucketOf(candidate_df[q].idx)
        /\ IsSubsequence(SelectedSeq, IdSeq(candidate_df))
        /\ \A p, q \in 1..Len(scheduled) :
               p < q => BucketOf(scheduled[p].Invoice) <= BucketOf(scheduled[q].Invoice)

\* a priority-1 invoice is scheduled ahead of a priority-2 invoice of the same
\* due date that has the larger discount and came first in the input
C4_Witness ==
    /\ pc = "done"
    /\ \E p, q \in 1..Len(scheduled) :
        /\ p < q
        /\ scheduled[p].Invoice > scheduled[q].Invoice
        /\ BucketOf(scheduled[p].Invoice) = 1
        /\ BucketOf(scheduled[q].Invoice) = 2
        /\ scheduled[p].OrigDueDate = scheduled[q].OrigDueDate
        /\ ParseDiscountTerms(df[scheduled[p].Invoice].DiscountTerms).rate
             < ParseDiscountTerms(df[scheduled[q].Invoice].DiscountTerms).rate
    /\ \E r \in 1..Len(scheduled) : BucketOf(scheduled[r].Invoice) = 3

----------------------------------------------------------------------------
----------------------------------------------------------------------------
(* C6.  Every selected invoice has discountAmount = amount * rate rounded   *)
(* to 2 decimal places, with the parsed rate for a Bucket C invoice and     *)
(* rate 0 for a Bucket A or Bucket B invoice, whose discountAmount is 0.    *)
C6_DiscountAmount ==
    pc = "done" =>
        \A i \in 1..Len(scheduled) :
            LET id == scheduled[i].Invoice
                rate == IF BucketOf(id) = 3
                        THEN ParseDiscountTerms(df[id].DiscountTerms).rate
                        ELSE 0
            IN  scheduled[i].Discount
                    = Some(RoundHalfEven(df[id].Amount * rate, RateScale))

----------------------------------------------------------------------------
----------------------------------------------------------------------------
(* C8.  spendCap is min(currentCash, maxSpend) when maxSpend is present and *)
(* not zero, and currentCash when it is absent or zero: an override lowers  *)
(* the cap or leaves it, and never raises it above currentCash.             *)
C8_SpendCap ==
    ~IsNone(spend_cap) =>
        LET cap == Get(spend_cap)
        IN  /\ cap <= current_cash
            /\ (IsNone(max_spend) \/ Get(max_spend) = 0) => cap = current_cash
            /\ (~IsNone(max_spend) /\ Get(max_spend) # 0) =>
                /\ cap <= Get(max_spend)
                /\ cap \in {current_cash, Get(max_spend)}

\* an override above the cash on hand leaves the cap at the cash on hand
C8_Witness ==
    /\ ~IsNone(spend_cap)
    /\ ~IsNone(max_spend)
    /\ Get(max_spend) > current_cash
    /\ Get(spend_cap) = current_cash
    /\ pc = "done"

----------------------------------------------------------------------------
(* C9.  Two calls with the same batch and the same run parameters return    *)
(* the same sequence (same invoices, order and recommendedPayDate): the     *)
(* reference date is an argument and nothing ambient, such as the system    *)
(* clock, changes the result.                                               *)
C9_SameRequestSameResponse ==
    (pc = "done" /\ ~IsNone(prev) /\ Get(prev).request = Request)
        => Get(prev).response = scheduled

----------------------------------------------------------------------------
(* C10.  When no invoice amount is negative, the returned schedule is       *)
(* maximal: every invoice that was not selected would take the total over   *)
(* spendCap.                                                                *)
C10_Maximal ==
    (pc = "done" /\ AllAmountsNonNegative) =>
        \A i \in 1..Len(df) :
            i \notin SelectedIds
                => SumAmounts(scheduled) + df[i].Amount > Get(spend_cap)

\* an invoice was skipped, a later one was selected, and the skipped one
\* still does not fit at the end
C10_Witness ==
    /\ pc = "done"
    /\ AllAmountsNonNegative
    /\ \E p, q \in 1..Len(candidate_df) :
        /\ p < q
        /\ candidate_df[p].idx \notin SelectedIds
        /\ candidate_df[q].idx \in SelectedIds
        /\ candidate_df[q].Amount > 0
    /\ SumAmounts(scheduled) < Get(spend_cap)

====
